---- MODULE Spec2Model ----
(***************************************************************************)
(* A model of junction/formatting.py: the Format marker, the               *)
(* StringWithFormatting value (concatenation, length, slicing) and the     *)
(* TextWrapper (chunking, stripping, line packing).                        *)
(*                                                                         *)
(* Python values are records of one shape, told apart by the field k:      *)
(*   "str"  a str; s is its characters, as code points                     *)
(*   "fmt"  a Format; a is its terminal_attribute                          *)
(*   "swf"  a StringWithFormatting; c is its _content tuple                *)
(*   "err"  an exception that left the operation; a is its class           *)
(*   "none" no value yet                                                   *)
(***************************************************************************)
EXTENDS Integers, Sequences, FiniteSets, TLC

\* Bounds of the model.
MaxSize == 3
MaxLen == 5
MaxText == 4
MaxWidth == 3

\* The lines a run of wrap may append: more than any text within MaxText needs
\* at a width of 1 or more.
MaxLines == MaxText + 2

VARIABLES
    rt, last,                            \* concatenation: two values under construction, the last a + b
    t, start, stop, out,                 \* slicing: t[start:stop] and its result
    text, width, pc, chunks, result, err \* wrap(text, width): the loop's position, queue and lines

vars == <<rt, last, t, start, stop, out, text, width, pc, chunks, result, err>>

concatVars == <<rt, last>>

sliceVars == <<t, start, stop, out>>

wrapVars == <<text, width, pc, chunks, result, err>>

-----------------------------------------------------------------------------
\* Python values

Str(s) == [k |-> "str", s |-> s, a |-> "", c |-> <<>>]

Format(terminal_attribute) == [k |-> "fmt", s |-> <<>>, a |-> terminal_attribute, c |-> <<>>]

StringWithFormatting(content) == [k |-> "swf", s |-> <<>>, a |-> "", c |-> content]

Raised(exception) == [k |-> "err", s |-> <<>>, a |-> exception, c |-> <<>>]

None == [k |-> "none", s |-> <<>>, a |-> "", c |-> <<>>]

isFormat(x) == x.k = "fmt"

\* string.whitespace: ' \t\n\r\x0b\x0c'
whitespace == {32, 9, 10, 13, 11, 12}

\* The characters str.strip() removes: those of string.whitespace and the other
\* characters for which str.isspace() holds (here the ones below U+0100).
strip_chars == whitespace \cup {28, 29, 30, 31, 133, 160}

\* The characters of the model: 'a', ' ' and U+001F (a space to str.strip(),
\* not a member of string.whitespace).
Chars == {97, 32, 31}

Markers == {"bold", "normal"}

Front(seq) == SubSeq(seq, 1, Len(seq) - 1)

Last(seq) == seq[Len(seq)]

-----------------------------------------------------------------------------
\* Concatenation

RECURSIVE py_add(_, _)
RECURSIVE SWF_add(_, _)
RECURSIVE SWF_radd(_, _)

\* Format.__add__
Format_add(self, other) ==
    IF other.k = "swf" THEN SWF_radd(other, self)
    ELSE StringWithFormatting(<<self, other>>)

\* Format.__radd__
Format_radd(self, other) == StringWithFormatting(<<other, self>>)

\* The test that two StringWithFormatting operands meet in two strings.
BothEndsStrings(self, other) ==
    ~isFormat(Last(self.c)) /\ ~isFormat(Last(other.c))

\* StringWithFormatting.__add__
SWF_add(self, other) ==
    IF isFormat(other) THEN StringWithFormatting(Append(self.c, other))
    ELSE IF other.k = "str" THEN
        IF self.c = <<>> THEN Raised("IndexError")
        ELSE IF isFormat(Last(self.c)) THEN StringWithFormatting(Append(self.c, other))
        ELSE LET fused == py_add(Last(self.c), other)
             IN  IF fused.k = "err" THEN fused
                 ELSE StringWithFormatting(Append(Front(self.c), fused))
    ELSE IF self.c = <<>> THEN Raised("IndexError")
    ELSE IF isFormat(Last(self.c)) THEN StringWithFormatting(self.c \o other.c)
    ELSE IF other.c = <<>> THEN Raised("IndexError")
    ELSE IF BothEndsStrings(self, other) THEN
        LET fused == py_add(Last(self.c), Head(other.c))
        IN  IF fused.k = "err" THEN fused
            ELSE StringWithFormatting(Append(Front(self.c), fused) \o Tail(other.c))
    ELSE StringWithFormatting(self.c \o other.c)

\* StringWithFormatting.__radd__
SWF_radd(self, other) ==
    IF isFormat(other) THEN StringWithFormatting(<<other>> \o self.c)
    ELSE IF self.c = <<>> THEN Raised("IndexError")
    ELSE IF isFormat(Head(self.c)) THEN StringWithFormatting(<<other>> \o self.c)
    ELSE LET fused == py_add(other, Head(self.c))
         IN  IF fused.k = "err" THEN fused
             ELSE StringWithFormatting(<<fused>> \o Tail(self.c))

\* x + y: the left operand's __add__, or the right operand's __radd__ when the
\* left is a str and the right is not.
py_add(x, y) ==
    IF x.k = "err" THEN x
    ELSE IF y.k = "err" THEN y
    ELSE IF x.k = "str" THEN
        IF y.k = "str" THEN Str(x.s \o y.s)
        ELSE IF isFormat(y) THEN Format_radd(y, x)
        ELSE SWF_radd(y, x)
    ELSE IF isFormat(x) THEN Format_add(x, y)
    ELSE SWF_add(x, y)

\* ''.join(strings)
RECURSIVE join(_)
join(strings) ==
    IF strings = <<>> THEN <<>> ELSE Head(strings).s \o join(Tail(strings))

NotFormat(x) == ~isFormat(x)

\* StringWithFormatting.__str__: join raises TypeError on an item that is no str.
SWF_str(self) ==
    LET items == SelectSeq(self.c, NotFormat)
    IN  IF \E n \in 1..Len(items) : items[n].k # "str" THEN Raised("TypeError")
        ELSE Str(join(items))

\* Whether len(x) raises.
LenRaises(x) == x.k = "swf" /\ SWF_str(x).k = "err"

\* len(x) where it does not raise: str.__len__, Format.__len__,
\* StringWithFormatting.__len__.
py_len(x) ==
    IF x.k = "str" THEN Len(x.s)
    ELSE IF x.k = "swf" /\ ~LenRaises(x) THEN Len(SWF_str(x).s)
    ELSE 0

\* The number of characters and markers a value holds.
RECURSIVE Size(_)
RECURSIVE SizeAll(_)
Size(x) ==
    IF x.k = "str" THEN Len(x.s)
    ELSE IF x.k = "swf" THEN SizeAll(x.c)
    ELSE 1

SizeAll(content) ==
    IF content = <<>> THEN 0 ELSE Size(Head(content)) + SizeAll(Tail(content))

Regs == {1, 2}

PlainStrings == {<<97>>, <<32>>}

Bounded(x) == x.k # "err" /\ Size(x) <= MaxSize

\* StringWithFormatting(s) for a plain string s
Construct(r, s) ==
    /\ rt' = [rt EXCEPT ![r] = StringWithFormatting(<<Str(s)>>)]
    /\ UNCHANGED <<last, sliceVars, wrapVars>>

\* rich + plain string
AddString(r, s) ==
    LET new == py_add(rt[r], Str(s))
    IN  /\ Bounded(new)
        /\ rt' = [rt EXCEPT ![r] = new]
        /\ UNCHANGED <<last, sliceVars, wrapVars>>

\* plain string + rich
RAddString(r, s) ==
    LET new == py_add(Str(s), rt[r])
    IN  /\ Bounded(new)
        /\ rt' = [rt EXCEPT ![r] = new]
        /\ UNCHANGED <<last, sliceVars, wrapVars>>

\* rich + marker
AddFormat(r, m) ==
    LET new == py_add(rt[r], Format(m))
    IN  /\ Bounded(new)
        /\ rt' = [rt EXCEPT ![r] = new]
        /\ UNCHANGED <<last, sliceVars, wrapVars>>

\* marker + rich
RAddFormat(r, m) ==
    LET new == py_add(Format(m), rt[r])
    IN  /\ Bounded(new)
        /\ rt' = [rt EXCEPT ![r] = new]
        /\ UNCHANGED <<last, sliceVars, wrapVars>>

\* rich + rich
AddRich(r, q) ==
    LET new == py_add(rt[r], rt[q])
    IN  /\ Bounded(new)
        /\ rt' = [rt EXCEPT ![r] = new]
        /\ last' = [x |-> rt[r], y |-> rt[q], v |-> new]
        /\ UNCHANGED <<sliceVars, wrapVars>>

IdleConcat ==
    /\ rt = [r \in Regs |-> None]
    /\ last = [x |-> None, y |-> None, v |-> None]

IdleSlice ==
    /\ t = None
    /\ start = 0
    /\ stop = 0
    /\ out = None

IdleWrap ==
    /\ text = None
    /\ width = 1
    /\ pc = "idle"
    /\ chunks = <<>>
    /\ result = <<>>
    /\ err = "none"

InitConcat ==
    /\ rt \in [Regs -> {StringWithFormatting(<<Str(s)>>) : s \in PlainStrings}]
    /\ last = [x |-> None, y |-> None, v |-> None]
    /\ IdleSlice
    /\ IdleWrap

NextConcat ==
    \/ \E r \in Regs, s \in PlainStrings : Construct(r, s)
    \/ \E r \in Regs, s \in PlainStrings : AddString(r, s)
    \/ \E r \in Regs, s \in PlainStrings : RAddString(r, s)
    \/ \E r \in Regs, m \in Markers : AddFormat(r, m)
    \/ \E r \in Regs, m \in Markers : RAddFormat(r, m)
    \/ \E r \in Regs, q \in Regs : AddRich(r, q)

SpecConcat == InitConcat /\ [][NextConcat]_vars

\* The values whose segments are plain-text runs and markers.
WellFormed(x) ==
    /\ x.k = "swf"
    /\ \A n \in 1..Len(x.c) : x.c[n].k \in {"str", "fmt"}

\* C1: for Rich Text a and b, a + b succeeds and len(a + b) = len(a) + len(b).
C1_AddLength ==
    (last.v.k # "none" /\ WellFormed(last.x) /\ WellFormed(last.y)) =>
        /\ ~LenRaises(last.v)
        /\ py_len(last.v) = py_len(last.x) + py_len(last.y)

\* No two adjacent segments are both plain-text runs.
Canonical(x) ==
    \A n \in 1..(Len(x.c) - 1) : ~(x.c[n].k = "str" /\ x.c[n + 1].k = "str")

\* C2: after any sequence of constructions from a plain string and
\* concatenations, no Rich Text holds two adjacent plain-text runs; where the
\* left operand ends and the right operand starts with a plain-text run, the
\* two are fused into one.
C2_Canonical ==
    /\ \A r \in Regs : Canonical(rt[r])
    /\ (/\ last.v.k # "none"
        /\ WellFormed(last.x) /\ WellFormed(last.y)
        /\ Last(last.x.c).k = "str" /\ Head(last.y.c).k = "str") =>
            /\ WellFormed(last.v)
            /\ Len(last.v.c) = Len(last.x.c) + Len(last.y.c) - 1

-----------------------------------------------------------------------------
\* Iteration and slicing

\* iter(x): the characters of a str, each a str of length 1; a Format yields
\* itself (Format.__iter__); StringWithFormatting.__iter__ yields the items of
\* each of its segments.
RECURSIVE py_iter(_)
RECURSIVE iter_content(_)
py_iter(x) ==
    IF x.k = "str" THEN [n \in 1..Len(x.s) |-> Str(<<x.s[n]>>)]
    ELSE IF x.k = "swf" THEN iter_content(x.c)
    ELSE <<x>>

iter_content(content) ==
    IF content = <<>> THEN <<>>
    ELSE py_iter(Head(content)) \o iter_content(Tail(content))

\* StringWithFormatting._enumerate_chars: each item with the running count of
\* visible characters, the item's own length included.
RECURSIVE enumerate_from(_, _)
enumerate_from(items, num_chars) ==
    IF items = <<>> THEN <<>>
    ELSE LET n == num_chars + py_len(Head(items))
         IN  <<[i |-> n, char |-> Head(items)]>> \o enumerate_from(Tail(items), n)

enumerate_chars(self) == enumerate_from(py_iter(self), 0)

\* A mutation of in_range: the lower bound taken inclusive.
in_range_inclusive(start_, i, stop_) == start_ <= i /\ i <= stop_

\* The test of _get_slice that an item belongs to the slice.
in_range(start_, i, stop_) == start_ < i /\ i <= stop_

\* A mutation of prepend_first_format: the earlier markers are lost.
prepend_nothing(first_format, result_) == result_

\* result[0:0] = first_format
prepend_first_format(first_format, result_) ==
    IF first_format # <<>> THEN first_format \o result_ ELSE result_

\* The body of the loop of _get_slice over the items left, from the locals in
\* st; the loop ends at the item whose count is stop_, or when the items end.
RECURSIVE slice_loop(_, _, _, _)
slice_loop(items, st, start_, stop_) ==
    IF items = <<>> THEN st.result
    ELSE LET i == Head(items).i
             char == Head(items).char
             st1 == IF in_range(start_, i, stop_) THEN
                        IF isFormat(char) THEN
                            [st EXCEPT !.result =
                                        Append(IF st.string # <<>>
                                               THEN Append(st.result, Str(st.string))
                                               ELSE st.result, char),
                                       !.string = <<>>]
                        ELSE [st EXCEPT !.string = st.string \o char.s]
                    ELSE IF isFormat(char) THEN
                        [st EXCEPT !.first_format = Append(st.first_format, char)]
                    ELSE st
         IN  IF i = stop_ THEN
                 LET prepended == prepend_first_format(st1.first_format, st1.result)
                 IN  IF st1.string # <<>> THEN Append(prepended, Str(st1.string))
                     ELSE prepended
             ELSE slice_loop(Tail(items), st1, start_, stop_)

Min(m, n) == IF m <= n THEN m ELSE n

\* StringWithFormatting._get_slice, for start and stop that are not None
get_slice(self, start_, stop_) ==
    IF LenRaises(self) THEN Raised("TypeError")
    ELSE StringWithFormatting(
            slice_loop(enumerate_chars(self),
                       [result |-> <<>>, string |-> <<>>, first_format |-> <<>>],
                       start_, Min(stop_, py_len(self))))

\* The items a text is made of: single characters and markers.
Symbols(chars) == {Str(<<ch>>) : ch \in chars} \cup {Format(m) : m \in Markers}

Streams(chars, n) == UNION {[1..m -> Symbols(chars)] : m \in 0..n}

\* The segments of a stream of items: each maximal run of characters one str.
RECURSIVE ToContent(_)
ToContent(stream) ==
    IF stream = <<>> THEN <<>>
    ELSE LET rest == ToContent(Tail(stream))
         IN  IF Head(stream).k = "str" /\ rest # <<>> /\ Head(rest).k = "str"
             THEN <<Str(Head(stream).s \o Head(rest).s)>> \o Tail(rest)
             ELSE <<Head(stream)>> \o rest

SliceChars == {97, 32}

\* t[start:stop]
Slice ==
    /\ out = None
    /\ out' = get_slice(t, start, stop)
    /\ UNCHANGED <<t, start, stop, concatVars, wrapVars>>

InitSlice ==
    /\ t \in {StringWithFormatting(ToContent(st)) : st \in Streams(SliceChars, MaxLen)}
    /\ start \in 0..(MaxLen + 1)
    /\ stop \in 0..(MaxLen + 1)
    /\ out = None
    /\ IdleConcat
    /\ IdleWrap

NextSlice == Slice

SpecSlice == InitSlice /\ [][NextSlice]_vars

Sliced == out.k # "none"

\* C3: for 0 <= start <= stop <= len(t), t[start:stop] holds exactly the visible
\* characters of t at positions [start, stop), in order; its length is
\* stop - start.
C3_SliceText ==
    (Sliced /\ 0 <= start /\ start <= stop /\ stop <= py_len(t)) =>
        /\ out.k = "swf"
        /\ ~LenRaises(out)
        /\ SWF_str(out).s = SubSeq(SWF_str(t).s, start + 1, stop)
        /\ py_len(out) = stop - start

\* The number of visible characters among the first n items of a stream.
CharsBefore(stream, n) == Cardinality({m \in 1..n : stream[m].k = "str"})

\* The markers of stream standing before the visible character at a position
\* within lo..hi.
MarkersAt(stream, lo, hi) ==
    {n \in 1..Len(stream) :
        isFormat(stream[n]) /\ CharsBefore(stream, n) \in lo..hi}

\* The items of the slice as claim C4 states them: every marker before the
\* character at position start_, then the characters of [start_, stop_) with
\* the markers between them, all in their order in the stream.
RECURSIVE ExpectedSlice(_, _, _, _)
ExpectedSlice(stream, n, start_, stop_) ==
    IF n > Len(stream) THEN <<>>
    ELSE LET p == CharsBefore(stream, n - 1)
             keep == IF isFormat(stream[n]) THEN p < stop_
                     ELSE start_ <= p /\ p < stop_
         IN  (IF keep THEN <<stream[n]>> ELSE <<>>)
                 \o ExpectedSlice(stream, n + 1, start_, stop_)

\* C4: for 0 <= start < stop <= len(t), the slice carries every marker that
\* precedes position start, in order, then the characters of the range with
\* the markers between them in place; none dropped, duplicated or reordered.
C4_SliceMarkers ==
    (Sliced /\ 0 <= start /\ start < stop /\ stop <= py_len(t)) =>
        /\ out.k = "swf"
        /\ py_iter(out) = ExpectedSlice(py_iter(t), 1, start, stop)

\* A slice taken with markers before the range, inside it and at its end,
\* which is where the text ends or not.
C3_Witness ==
    /\ Sliced
    /\ 0 <= start /\ start < stop /\ stop <= py_len(t)
    /\ MarkersAt(py_iter(t), 0, start) # {}
    /\ MarkersAt(py_iter(t), start + 1, stop - 1) # {}
    /\ MarkersAt(py_iter(t), stop, stop) # {}
    /\ py_len(out) = 2

\* A slice that starts after a marker and has a marker between two of its
\* characters: the result starts with the first and holds the second.
C4_Witness ==
    /\ Sliced
    /\ 1 <= start /\ start < stop /\ stop <= py_len(t)
    /\ MarkersAt(py_iter(t), 0, start) # {}
    /\ MarkersAt(py_iter(t), start + 1, stop - 1) # {}
    /\ isFormat(Head(out.c))
    /\ Len(out.c) >= 4

-----------------------------------------------------------------------------
\* TextWrapper

\* The char_type _chunk gives an item
char_type(char) ==
    IF isFormat(char) THEN "format"
    ELSE IF char.s[1] \in whitespace THEN "break"
    ELSE "char"

\* bool(x): str.__len__, Format.__bool__, StringWithFormatting.__len__
truthy(x) ==
    IF x.k = "str" THEN x.s # <<>>
    ELSE IF x.k = "swf" THEN py_len(x) > 0
    ELSE TRUE

\* The loop of _chunk over the items left, and the yield that follows it;
\* yielded is the chunks yielded so far.
RECURSIVE chunk_loop(_, _, _, _)
chunk_loop(items, current_chunk, previous_char_type, yielded) ==
    IF items = <<>> THEN Append(yielded, current_chunk)
    ELSE LET char == Head(items)
             ty == char_type(char)
         IN  IF ty # previous_char_type THEN
                 chunk_loop(Tail(items), char, ty,
                            IF truthy(current_chunk) THEN Append(yielded, current_chunk)
                            ELSE yielded)
             ELSE chunk_loop(Tail(items), py_add(current_chunk, char), ty, yielded)

\* list(TextWrapper._chunk(string_like))
chunk(string_like) == chunk_loop(py_iter(string_like), Str(<<>>), "None", <<>>)

\* chunk.strip() == '' for a str
strips_to_empty(chunk_) == \A n \in 1..Len(chunk_.s) : chunk_.s[n] \in strip_chars

\* The first loop of _do_strip over the indices left: the indices to delete,
\* and whether chunk.strip raised AttributeError (a StringWithFormatting has
\* no strip).
RECURSIVE strip_scan(_, _, _)
strip_scan(chunks_, iter_, del_chunks) ==
    IF iter_ = <<>> THEN [raised |-> FALSE, del |-> del_chunks]
    ELSE LET i == Head(iter_)
         IN  IF isFormat(chunks_[i]) THEN strip_scan(chunks_, Tail(iter_), del_chunks)
             ELSE IF chunks_[i].k # "str" THEN [raised |-> TRUE, del |-> del_chunks]
             ELSE IF strips_to_empty(chunks_[i])
                  THEN strip_scan(chunks_, Tail(iter_), del_chunks \cup {i})
             ELSE [raised |-> FALSE, del |-> del_chunks]

\* del chunks[i] for every i of del_chunks
RECURSIVE delete_chunks(_, _, _)
delete_chunks(chunks_, del_chunks, n) ==
    IF n > Len(chunks_) THEN <<>>
    ELSE (IF n \in del_chunks THEN <<>> ELSE <<chunks_[n]>>)
            \o delete_chunks(chunks_, del_chunks, n + 1)

\* TextWrapper._do_strip: the list after it, or the exception
do_strip(chunks_, iter_) ==
    LET scan == strip_scan(chunks_, iter_, {})
    IN  IF scan.raised THEN [err |-> "AttributeError", chunks |-> chunks_]
        ELSE [err |-> "none", chunks |-> delete_chunks(chunks_, scan.del, 1)]

\* range(len(chunks)), as indices from 1
range_len(chunks_) == [n \in 1..Len(chunks_) |-> n]

\* reversed(range(len(chunks)))
reversed_range_len(chunks_) == [n \in 1..Len(chunks_) |-> Len(chunks_) + 1 - n]

\* TextWrapper._lstrip
lstrip(chunks_) == do_strip(chunks_, range_len(chunks_))

\* TextWrapper._rstrip
rstrip(chunks_) == do_strip(chunks_, reversed_range_len(chunks_))

\* The test of wrap that the next chunk goes on the current line.
fits(current_line_length, current_chunk_length, width_) ==
    current_line_length + current_chunk_length <= width_

\* The inner loop of wrap: chunks popped onto the line while they fit.
RECURSIVE fill(_, _, _, _, _)
fill(chunks_, current_line, current_line_length, current_chunk_length, width_) ==
    IF chunks_ = <<>> THEN
        [chunks |-> chunks_, line |-> current_line,
         line_length |-> current_line_length, chunk_length |-> current_chunk_length]
    ELSE LET n == py_len(Head(chunks_))
         IN  IF fits(current_line_length, n, width_) THEN
                 fill(Tail(chunks_), Append(current_line, Head(chunks_)),
                      current_line_length + n, n, width_)
             ELSE [chunks |-> chunks_, line |-> current_line,
                   line_length |-> current_line_length, chunk_length |-> n]

Max(m, n) == IF m >= n THEN m ELSE n

\* x[:n] for a str x, a negative n counted from the end
str_upto(x, n) ==
    Str(SubSeq(x.s, 1, IF n >= 0 THEN Min(n, Len(x.s)) ELSE Max(Len(x.s) + n, 0)))

\* x[n:] for a str x
str_from(x, n) ==
    Str(SubSeq(x.s, (IF n >= 0 THEN Min(n, Len(x.s)) ELSE Max(Len(x.s) + n, 0)) + 1,
               Len(x.s)))

\* x[:n]: str slicing, StringWithFormatting.__getitem__; a Format has no
\* __getitem__.
py_upto(x, n) ==
    IF x.k = "str" THEN str_upto(x, n)
    ELSE IF x.k = "swf" THEN get_slice(x, 0, n)
    ELSE Raised("TypeError")

\* x[n:]
py_from(x, n) ==
    IF x.k = "str" THEN str_from(x, n)
    ELSE IF x.k = "swf" THEN get_slice(x, n, py_len(x))
    ELSE Raised("TypeError")

\* From the start of a pass of wrap's outer loop to the call of _rstrip: the
\* queue and the line then, or the exception.
pack(chunks_, width_) ==
    LET stripped == lstrip(chunks_)
        filled == fill(stripped.chunks, <<>>, 0, 0, width_)
        space_left == width_ - filled.line_length
    IN  IF stripped.err # "none" THEN [err |-> stripped.err, chunks |-> chunks_, line |-> <<>>]
        ELSE IF filled.chunk_length > width_ THEN
            IF filled.chunks = <<>> THEN
                [err |-> "IndexError", chunks |-> filled.chunks, line |-> filled.line]
            ELSE IF py_upto(Head(filled.chunks), space_left).k = "err" THEN
                [err |-> py_upto(Head(filled.chunks), space_left).a,
                 chunks |-> filled.chunks, line |-> filled.line]
            ELSE [err |-> "none",
                  chunks |-> <<py_from(Head(filled.chunks), space_left)>>
                                \o Tail(filled.chunks),
                  line |-> Append(filled.line, py_upto(Head(filled.chunks), space_left))]
        ELSE [err |-> "none", chunks |-> filled.chunks, line |-> filled.line]

\* reduce(lambda x, y: x + y, rest, acc)
RECURSIVE reduce_add(_, _)
reduce_add(acc, rest) ==
    IF rest = <<>> THEN acc ELSE reduce_add(py_add(acc, Head(rest)), Tail(rest))

\* One pass of wrap's outer loop: the queue after it and the line it appends,
\* or the exception.
wrap_pass(chunks_, width_) ==
    LET packed == pack(chunks_, width_)
        current_line == rstrip(packed.line)
    IN  IF packed.err # "none" THEN [err |-> packed.err, chunks |-> chunks_, line |-> None]
        ELSE IF current_line.err # "none" THEN
            [err |-> current_line.err, chunks |-> packed.chunks, line |-> None]
        ELSE [err |-> "none", chunks |-> packed.chunks,
              line |-> IF current_line.chunks # <<>>
                       THEN reduce_add(Head(current_line.chunks), Tail(current_line.chunks))
                       ELSE Str(<<>>)]

\* wrap(text, width): result = [] and chunks = list(self._chunk(text))
WrapChunk ==
    /\ pc = "start"
    /\ chunks' = chunk(text)
    /\ result' = <<>>
    /\ pc' = "loop"
    /\ UNCHANGED <<text, width, err, concatVars, sliceVars>>

\* A pass of the outer loop
WrapLine ==
    /\ pc = "loop"
    /\ chunks # <<>>
    /\ Len(result) < MaxLines
    /\ LET pass == wrap_pass(chunks, width)
       IN  IF pass.err # "none" THEN
               /\ pc' = "raised"
               /\ err' = pass.err
               /\ UNCHANGED <<chunks, result>>
           ELSE
               /\ chunks' = pass.chunks
               /\ result' = Append(result, pass.line)
               /\ UNCHANGED <<pc, err>>
    /\ UNCHANGED <<text, width, concatVars, sliceVars>>

\* return result
WrapReturn ==
    /\ pc = "loop"
    /\ chunks = <<>>
    /\ pc' = "done"
    /\ UNCHANGED <<text, width, chunks, result, err, concatVars, sliceVars>>

\* The text of a stream of items: a str when it holds no marker
TextOf(stream) ==
    IF \E n \in 1..Len(stream) : isFormat(stream[n])
    THEN StringWithFormatting(ToContent(stream))
    ELSE Str(join(stream))

Widths == -1..MaxWidth

InitWrapOver(chars) ==
    /\ text \in {TextOf(st) : st \in Streams(chars, MaxText)}
    /\ width \in Widths
    /\ pc = "start"
    /\ chunks = <<>>
    /\ result = <<>>
    /\ err = "none"
    /\ IdleConcat
    /\ IdleSlice

NextWrap == WrapChunk \/ WrapLine \/ WrapReturn

\* wrap over texts of 'a', ' ', U+001F and markers
SpecWrap == InitWrapOver(Chars) /\ [][NextWrap]_vars

\* wrap over texts of 'a', ' ' and markers
SpecWrapAscii == InitWrapOver({97, 32}) /\ [][NextWrap]_vars

-----------------------------------------------------------------------------
\* Claims about wrap

\* The items of the lines, in order
RECURSIVE ItemsOf(_)
ItemsOf(lines) ==
    IF lines = <<>> THEN <<>> ELSE py_iter(Head(lines)) \o ItemsOf(Tail(lines))

NotWhitespace(item) == isFormat(item) \/ item.s[1] \notin whitespace

\* C5: the markers and non-whitespace characters of the lines wrap returns,
\* in order, are those of the text: none dropped, duplicated or reordered.
C5_Conserves ==
    (pc = "done" /\ width >= 1) =>
        SelectSeq(ItemsOf(result), NotWhitespace) = SelectSeq(py_iter(text), NotWhitespace)

\* C6: with width < 1 wrap raises InvalidWidth: it appends no line, does not
\* return, and leaves by no other exception.
C6_InvalidWidth ==
    width < 1 =>
        /\ result = <<>>
        /\ pc # "done"
        /\ pc = "raised" => err = "InvalidWidth"

\* The visible characters of a line
VisibleText(line) ==
    IF line.k = "str" THEN line.s
    ELSE IF line.k = "swf" /\ ~LenRaises(line) THEN SWF_str(line).s
    ELSE <<>>

AllLinesFit ==
    \A n \in 1..Len(result) : ~LenRaises(result[n]) /\ py_len(result[n]) <= width

\* A pass of the outer loop has appended a line.
LinePacked == pc = "loop" /\ pc' = "loop" /\ Len(result') = Len(result) + 1

\* A run of non-whitespace characters
WordRun(chunk_) == chunk_.k = "str" /\ chunk_.s # <<>> /\ chunk_.s[1] \notin whitespace

\* A run of whitespace characters, or the empty string
WhitespaceRun(chunk_) ==
    chunk_.k = "str" /\ \A n \in 1..Len(chunk_.s) : chunk_.s[n] \in whitespace

\* The queue's next line starts with a word-run longer than the width: before
\* it the queue holds markers and whitespace runs only.
LongWordStarts(chunks_, width_) ==
    \E n \in 1..Len(chunks_) :
        /\ WordRun(chunks_[n])
        /\ Len(chunks_[n].s) > width_
        /\ \A m \in 1..(n - 1) : isFormat(chunks_[m]) \/ WhitespaceRun(chunks_[m])

\* C7: for width >= 1 every line has visible length <= width, and a line that
\* a word-run longer than width starts has visible length exactly width.
C7_LineWidth ==
    /\ [](width >= 1 => AllLinesFit)
    /\ [][(width >= 1 /\ LinePacked /\ LongWordStarts(chunks, width))
            => py_len(Last(result')) = width]_vars

\* The reference greedy word-wrap of claim C8, over the words and gaps of the
\* text.
RECURSIVE Tokens(_)
Tokens(s) ==
    IF s = <<>> THEN <<>>
    ELSE LET rest == Tokens(Tail(s))
         IN  IF rest # <<>> /\ ((Head(s) \in whitespace) = (Head(rest)[1] \in whitespace))
             THEN <<<<Head(s)>> \o Head(rest)>> \o Tail(rest)
             ELSE <<<<Head(s)>>>> \o rest

IsGap(token) == token[1] \in whitespace

RECURSIVE DropGaps(_)
DropGaps(tokens) ==
    IF tokens # <<>> /\ IsGap(Head(tokens)) THEN DropGaps(Tail(tokens)) ELSE tokens

RECURSIVE DropTrailing(_)
DropTrailing(s) ==
    IF s # <<>> /\ Last(s) \in whitespace THEN DropTrailing(Front(s)) ELSE s

RECURSIVE RefFill(_, _, _)
RefFill(tokens, line, width_) ==
    IF tokens = <<>> THEN [line |-> line, rest |-> tokens]
    ELSE IF Len(line) + Len(Head(tokens)) <= width_
         THEN RefFill(Tail(tokens), line \o Head(tokens), width_)
    ELSE IF ~IsGap(Head(tokens)) /\ Len(Head(tokens)) > width_
         THEN [line |-> line \o SubSeq(Head(tokens), 1, width_ - Len(line)),
               rest |-> <<SubSeq(Head(tokens), width_ - Len(line) + 1, Len(Head(tokens)))>>
                           \o Tail(tokens)]
    ELSE [line |-> line, rest |-> tokens]

RECURSIVE RefLines(_, _)
RefLines(tokens, width_) ==
    IF DropGaps(tokens) = <<>> THEN <<>>
    ELSE LET filled == RefFill(DropGaps(tokens), <<>>, width_)
             line == DropTrailing(filled.line)
         IN  (IF line # <<>> THEN <<Str(line)>> ELSE <<>>) \o RefLines(filled.rest, width_)

RefWrap(s, width_) ==
    IF RefLines(Tokens(s), width_) = <<>> THEN <<Str(<<>>)>>
    ELSE RefLines(Tokens(s), width_)

\* C8: for plain text and width >= 1, wrap returns the lines of the reference
\* greedy word-wrap; an empty line only for a text without a word.
C8_Reference ==
    (pc = "done" /\ width >= 1 /\ text.k = "str") => result = RefWrap(text.s, width)

\* The visible characters left in the queue
RECURSIVE QueueLength(_)
QueueLength(chunks_) ==
    IF chunks_ = <<>> THEN 0 ELSE py_len(Head(chunks_)) + QueueLength(Tail(chunks_))

\* C9: for width >= 1 wrap raises nothing and returns with an empty queue,
\* and each pass takes a chunk or a visible character off the queue.
C9_Total ==
    /\ [](width >= 1 =>
            /\ pc # "raised"
            /\ pc = "done" => chunks = <<>>)
    /\ [][(width >= 1 /\ LinePacked)
            => \/ Len(chunks') < Len(chunks)
               \/ QueueLength(chunks') < QueueLength(chunks)]_vars

NoBoundaryWhitespace ==
    \A n \in 1..Len(result) :
        LET v == VisibleText(result[n])
        IN  v # <<>> => v[1] \notin whitespace /\ Last(v) \notin whitespace

\* What _do_strip deletes from a list is whitespace runs, and the markers of
\* the list stay as they are.
StripsWhitespaceOnly(chunks_, iter_) ==
    /\ \A n \in strip_scan(chunks_, iter_, {}).del : WhitespaceRun(chunks_[n])
    /\ SelectSeq(do_strip(chunks_, iter_).chunks, isFormat) = SelectSeq(chunks_, isFormat)

\* C10: for width >= 1 no line starts or ends with a whitespace character,
\* and the stripping of a pass removes whitespace-run chunks only and leaves
\* every marker in place.
C10_Boundary ==
    /\ [](width >= 1 => NoBoundaryWhitespace)
    /\ [][(width >= 1 /\ LinePacked) =>
            /\ StripsWhitespaceOnly(chunks, range_len(chunks))
            /\ StripsWhitespaceOnly(pack(chunks, width).line,
                                    reversed_range_len(pack(chunks, width).line))]_vars

====
